---- MODULE Spec2Model ----
(***************************************************************************)
(* A model of src/src/06-objects-tasks.js: the css selector builder.      *)
(*                                                                         *)
(* JavaScript arrays are objects with identity, so the model keeps a heap *)
(* of arrays and lets every selector object hold a reference into it, as  *)
(* `this.items` does in the source.                                       *)
(***************************************************************************)
EXTENDS Integers, Sequences, FiniteSets, TLC

(* Bound: how many selector objects a behaviour may build. *)
MaxSelectors == 3

(* Inputs: the texts each fragment method is called with, and the symbols   *)
(* handed to combine.                                                       *)
Values(type) ==
  CASE type = "element" -> {"div"}
    [] type = "id" -> {"main"}
    [] type = "class" -> {"container", "editable"}
    [] type = "attr" -> {"href"}
    [] type = "pseudoClass" -> {"focus"}
    [] type = "pseudoElement" -> {"before"}

Combinators == {" ", "+"}

Types == {"element", "id", "class", "attr", "pseudoClass", "pseudoElement"}

(* `this.items` of an object that never got one (the facade itself). *)
Undefined == 0

(* The facade object cssSelectorBuilder is object 1; it is also the        *)
(* prototype of every selector object, so all of them share its methods.   *)
cssSelectorBuilder == 1

VARIABLES
  heap,    \* heap[r]: the array with reference r, a sequence of items
  objs,    \* objs[o].items: the reference object o holds (Undefined if none);
           \* objs[o].built: the fragments o was returned with (a record kept
           \* for the claims, the program holds no such copy)
  call,    \* the most recent call: what was called, on what, and its outcome
  before,  \* the heap as it was when the most recent call started
  rects,   \* the Rectangle instance built last, if any (at most one element)
  given,   \* the width and height last given to it, by `new` or by assignment
  rcall,   \* the most recent Rectangle operation and what getArea returned
  jx,      \* the instance handed to getJSON, if any (at most one element)
  jtext,   \* the text getJSON returned for it (at most one element)
  jy       \* the instance fromJSON built from that text (at most one element)

(* The state of the selector builder, and the state of the Rectangle. *)
selectorVars == <<heap, objs, call, before>>
rectangleVars == <<rects, given, rcall>>
jsonVars == <<jx, jtext, jy>>

vars == <<heap, objs, call, before, rects, given, rcall, jx, jtext, jy>>

(* ------------------------------ error ---------------------------------- *)

OrderMessage ==
  "Selector parts should be arranged in the following order: element, id, class, attribute, pseudo-class, pseudo-element"

ElementsMessage ==
  "Element, id and pseudo-element should not occur more then one time inside the selector"

(* What a call reports when nothing was thrown. *)
NoError == ""

(* error(value): the message of the Error it throws, NoError if it returns. *)
error(value) ==
  IF value = "order" THEN OrderMessage
  ELSE IF value = "elements" THEN ElementsMessage
  ELSE NoError

(* ------------------------- array primitives ---------------------------- *)

(* prev.some((elem) => elem.type === type) *)
some(arr, type) == \E i \in 1..Len(arr) : arr[i].type = type

(* Variant of lastWeightGreater with the comparison turned round. *)
lastWeightLess(arr, weight) ==
  /\ Len(arr) > 0
  /\ "weight" \in DOMAIN arr[Len(arr)]
  /\ arr[Len(arr)].weight < weight

(* Variant of lastWeightGreater that compares nothing once the array holds *)
(* a combine item.                                                         *)
lastWeightGreaterUnlessCombined(arr, weight) ==
  /\ Len(arr) > 0
  /\ \A i \in 1..Len(arr) : arr[i].type # "combine"
  /\ "weight" \in DOMAIN arr[Len(arr)]
  /\ arr[Len(arr)].weight > weight

(* prev[prev.length - 1].weight > weight; a combine item has no weight, and *)
(* undefined > n is false in JavaScript.                                    *)
lastWeightGreater(arr, weight) ==
  /\ Len(arr) > 0
  /\ "weight" \in DOMAIN arr[Len(arr)]
  /\ arr[Len(arr)].weight > weight

(* The outcome of a constructor: the heap it leaves, the reference its     *)
(* object holds in `items`, and the message thrown (NoError if none).      *)
Thrown(h, message) == [heap |-> h, items |-> Undefined, err |-> message]

(* this.items = prev; this.items.push(item): the object takes the caller's *)
(* array itself and pushes onto it.                                        *)
pushOntoPrev(h, prev, item) ==
  [heap |-> [h EXCEPT ![prev] = Append(@, item)], items |-> prev, err |-> NoError]

(* this.items = []; this.items.push(item): a fresh array. *)
pushOntoNew(h, item) ==
  [heap |-> Append(h, <<item>>), items |-> Len(h) + 1, err |-> NoError]

(* --------------------------- constructors ------------------------------ *)

(* Each constructor takes the heap h, the caller's `this.items` (prev) and  *)
(* the text val, and runs the body of the source's constructor function:   *)
(* the checks in the source's order, then the assignment and the push.     *)

(* Variant of MyElementSelector that checks the order before it looks for  *)
(* an element already there.                                               *)
MyElementSelectorOrderFirst(h, prev, val) ==
  LET item == [type |-> "element", value |-> val, weight |-> 0] IN
  IF prev # Undefined
  THEN IF lastWeightGreater(h[prev], item.weight) /\ error("order") # NoError
       THEN Thrown(h, error("order"))
       ELSE IF some(h[prev], "element") /\ error("elements") # NoError
            THEN Thrown(h, error("elements"))
            ELSE pushOntoPrev(h, prev, item)
  ELSE pushOntoNew(h, item)

MyElementSelector(h, prev, val) ==
  LET item == [type |-> "element", value |-> val, weight |-> 0] IN
  IF prev # Undefined
  THEN IF some(h[prev], "element") /\ error("elements") # NoError
       THEN Thrown(h, error("elements"))
       ELSE IF lastWeightGreater(h[prev], item.weight) /\ error("order") # NoError
            THEN Thrown(h, error("order"))
            ELSE pushOntoPrev(h, prev, item)
  ELSE pushOntoNew(h, item)

(* Variant of MyIdSelector that pushes before it checks. *)
MyIdSelectorPushFirst(h, prev, val) ==
  LET item == [type |-> "id", value |-> val, weight |-> 1] IN
  IF prev # Undefined
  THEN IF some(h[prev], "id") /\ error("elements") # NoError
       THEN Thrown(pushOntoPrev(h, prev, item).heap, error("elements"))
       ELSE IF lastWeightGreater(h[prev], item.weight) /\ error("order") # NoError
            THEN Thrown(pushOntoPrev(h, prev, item).heap, error("order"))
            ELSE pushOntoPrev(h, prev, item)
  ELSE pushOntoNew(h, item)

(* Variant of MyIdSelector without the check for an id already there. *)
MyIdSelectorNoDuplicateCheck(h, prev, val) ==
  LET item == [type |-> "id", value |-> val, weight |-> 1] IN
  IF prev # Undefined
  THEN IF lastWeightGreater(h[prev], item.weight) /\ error("order") # NoError
       THEN Thrown(h, error("order"))
       ELSE pushOntoPrev(h, prev, item)
  ELSE pushOntoNew(h, item)

MyIdSelector(h, prev, val) ==
  LET item == [type |-> "id", value |-> val, weight |-> 1] IN
  IF prev # Undefined
  THEN IF some(h[prev], "id") /\ error("elements") # NoError
       THEN Thrown(h, error("elements"))
       ELSE IF lastWeightGreater(h[prev], item.weight) /\ error("order") # NoError
            THEN Thrown(h, error("order"))
            ELSE pushOntoPrev(h, prev, item)
  ELSE pushOntoNew(h, item)

(* Variant of MyClassSelector that allows one class only. *)
MyClassSelectorUnique(h, prev, val) ==
  LET item == [type |-> "class", value |-> val, weight |-> 2] IN
  IF prev # Undefined
  THEN IF some(h[prev], "class") /\ error("elements") # NoError
       THEN Thrown(h, error("elements"))
       ELSE IF lastWeightGreater(h[prev], item.weight) /\ error("order") # NoError
            THEN Thrown(h, error("order"))
            ELSE pushOntoPrev(h, prev, item)
  ELSE pushOntoNew(h, item)

MyClassSelector(h, prev, val) ==
  LET item == [type |-> "class", value |-> val, weight |-> 2] IN
  IF prev # Undefined
  THEN IF lastWeightGreater(h[prev], item.weight) /\ error("order") # NoError
       THEN Thrown(h, error("order"))
       ELSE pushOntoPrev(h, prev, item)
  ELSE pushOntoNew(h, item)

(* Variant of MyAttrSelector without the order check. *)
MyAttrSelectorNoOrderCheck(h, prev, val) ==
  LET item == [type |-> "attr", value |-> val, weight |-> 3] IN
  IF prev # Undefined
  THEN pushOntoPrev(h, prev, item)
  ELSE pushOntoNew(h, item)

MyAttrSelector(h, prev, val) ==
  LET item == [type |-> "attr", value |-> val, weight |-> 3] IN
  IF prev # Undefined
  THEN IF lastWeightGreater(h[prev], item.weight) /\ error("order") # NoError
       THEN Thrown(h, error("order"))
       ELSE pushOntoPrev(h, prev, item)
  ELSE pushOntoNew(h, item)

MyPseudoClassSelector(h, prev, val) ==
  LET item == [type |-> "pseudoClass", value |-> val, weight |-> 4] IN
  IF prev # Undefined
  THEN IF lastWeightGreater(h[prev], item.weight) /\ error("order") # NoError
       THEN Thrown(h, error("order"))
       ELSE pushOntoPrev(h, prev, item)
  ELSE pushOntoNew(h, item)

(* Variant of MyPseudoElementSelector without the check for a              *)
(* pseudo-element already there.                                           *)
MyPseudoElementSelectorNoDuplicateCheck(h, prev, val) ==
  LET item == [type |-> "pseudoElement", value |-> val, weight |-> 5] IN
  IF prev # Undefined
  THEN IF lastWeightGreater(h[prev], item.weight) /\ error("order") # NoError
       THEN Thrown(h, error("order"))
       ELSE pushOntoPrev(h, prev, item)
  ELSE pushOntoNew(h, item)

MyPseudoElementSelector(h, prev, val) ==
  LET item == [type |-> "pseudoElement", value |-> val, weight |-> 5] IN
  IF prev # Undefined
  THEN IF some(h[prev], "pseudoElement") /\ error("elements") # NoError
       THEN Thrown(h, error("elements"))
       ELSE IF lastWeightGreater(h[prev], item.weight) /\ error("order") # NoError
            THEN Thrown(h, error("order"))
            ELSE pushOntoPrev(h, prev, item)
  ELSE pushOntoNew(h, item)

(* Variant of MyCombineSelector that takes sel1.items itself instead of a  *)
(* copy, so the combine item is pushed onto the left selector's array.     *)
MyCombineSelectorShared(h, items1, comb, items2) ==
  LET pushed == Append(h[items1], [type |-> "combine", value |-> comb]) IN
  LET h1 == [h EXCEPT ![items1] = pushed] IN
  [heap |-> Append(h1, pushed \o h1[items2]), items |-> Len(h1) + 1, err |-> NoError]

(* Variant of MyCombineSelector that applies the single-chain rules to the *)
(* joined sequence.                                                        *)
MyCombineSelectorValidating(h, items1, comb, items2) ==
  IF \/ some(h[items1], "element") /\ some(h[items2], "element")
     \/ some(h[items1], "id") /\ some(h[items2], "id")
     \/ some(h[items1], "pseudoElement") /\ some(h[items2], "pseudoElement")
  THEN Thrown(h, error("elements"))
  ELSE IF lastWeightGreater(h[items1], h[items2][1].weight)
       THEN Thrown(h, error("order"))
       ELSE [heap |-> Append(h, h[items1] \o <<[type |-> "combine", value |-> comb]>> \o h[items2]),
             items |-> Len(h) + 1, err |-> NoError]

(* Variant of MyCombineSelector that drops what concat(sel2.items) returns: *)
(* the object keeps the copy of the left array with the combine item.      *)
MyCombineSelectorConcatDropped(h, items1, comb, items2) ==
  LET copy == <<>> \o h[items1] IN
  LET pushed == Append(copy, [type |-> "combine", value |-> comb]) IN
  [heap |-> Append(h, pushed), items |-> Len(h) + 1, err |-> NoError]

(* Variant of MyCombineSelector that works on sel1.items in place: the     *)
(* combine item and the right fragments are pushed onto the left array,    *)
(* which the new object keeps.                                             *)
MyCombineSelectorInPlace(h, items1, comb, items2) ==
  [heap |-> [h EXCEPT ![items1] = Append(@, [type |-> "combine", value |-> comb]) \o h[items2]],
   items |-> items1, err |-> NoError]

(* MyCombineSelector: [].concat(sel1.items) copies the left array, push     *)
(* adds the combine item to the copy, concat(sel2.items) builds the array   *)
(* the object keeps.  The intermediate copy is garbage once the constructor *)
(* returns and is not kept on the heap.  Nothing is checked, nothing thrown.*)
MyCombineSelector(h, items1, comb, items2) ==
  LET copy == <<>> \o h[items1] IN
  LET pushed == Append(copy, [type |-> "combine", value |-> comb]) IN
  [heap |-> Append(h, pushed \o h[items2]), items |-> Len(h) + 1, err |-> NoError]

(* ------------------------------ stringify ------------------------------ *)

(* Variant of stringifyItem that writes a pseudo-element with one colon. *)
stringifyItemOneColon(res, item) ==
  LET r1 == IF item.type = "element" THEN res \o item.value ELSE res IN
  LET r2 == IF item.type = "id" THEN r1 \o "#" \o item.value ELSE r1 IN
  LET r3 == IF item.type = "class" THEN r2 \o "." \o item.value ELSE r2 IN
  LET r4 == IF item.type = "attr" THEN r3 \o "[" \o item.value \o "]" ELSE r3 IN
  LET r5 == IF item.type = "pseudoClass" THEN r4 \o ":" \o item.value ELSE r4 IN
  LET r6 == IF item.type = "pseudoElement" THEN r5 \o ":" \o item.value ELSE r5 IN
  LET r7 == IF item.type = "combine" THEN r6 \o " " \o item.value \o " " ELSE r6 IN
  r7

(* The body of the reduce callback: one `if` per type, each adding to res. *)
stringifyItem(res, item) ==
  LET r1 == IF item.type = "element" THEN res \o item.value ELSE res IN
  LET r2 == IF item.type = "id" THEN r1 \o "#" \o item.value ELSE r1 IN
  LET r3 == IF item.type = "class" THEN r2 \o "." \o item.value ELSE r2 IN
  LET r4 == IF item.type = "attr" THEN r3 \o "[" \o item.value \o "]" ELSE r3 IN
  LET r5 == IF item.type = "pseudoClass" THEN r4 \o ":" \o item.value ELSE r4 IN
  LET r6 == IF item.type = "pseudoElement" THEN r5 \o "::" \o item.value ELSE r5 IN
  LET r7 == IF item.type = "combine" THEN r6 \o " " \o item.value \o " " ELSE r6 IN
  r7

(* items.reduce(callback, ''), left to right from index i with accumulator  *)
(* res. The callback has returned newRes before reduce goes on to the next  *)
(* item, so newRes is a computed string when it is passed on.               *)
RECURSIVE reduce(_, _, _)
reduce(items, i, res) ==
  IF i > Len(items) THEN res
  ELSE LET newRes == stringifyItem(res, items[i]) IN
       IF Len(newRes) >= 0 THEN reduce(items, i + 1, newRes) ELSE newRes

stringify(items) == reduce(items, 1, "")

(* ------------------------------- state --------------------------------- *)

(* The selector objects built so far (every object but the facade). *)
Selectors == 2..Len(objs)

(* The array an object's `this.items` refers to. *)
ItemsOf(o) == heap[objs[o].items]

NoCall ==
  [op |-> "none", this |-> 0, value |-> "", left |-> 0, right |-> 0,
   err |-> NoError, result |-> 0, text |-> ""]

(* No Rectangle operation yet. *)
NoRectangleCall == [op |-> "none", area |-> 0]

Init ==
  /\ heap = <<>>
  /\ objs = <<[items |-> Undefined, ctor |-> "Object", built |-> <<>>]>>
  /\ call = NoCall
  /\ before = <<>>
  /\ rects = <<>>
  /\ given = [width |-> 0, height |-> 0]
  /\ rcall = NoRectangleCall
  /\ jx = <<>>
  /\ jtext = <<>>
  /\ jy = <<>>

(* Variant of Return in which the constructor runs on the receiver as well: *)
(* the receiver's `items` is set to the array of the new object.           *)
ReturnOntoReceiver(c, ctor, r) ==
  /\ before' = heap
  /\ heap' = r.heap
  /\ IF r.err = NoError
     THEN /\ objs' = [Append(objs, [items |-> r.items, ctor |-> ctor,
                                     built |-> r.heap[r.items]])
                        EXCEPT ![c.this].items = r.items]
          /\ call' = [c EXCEPT !.result = Len(objs) + 1]
     ELSE /\ objs' = objs
          /\ call' = [c EXCEPT !.err = r.err]
  /\ UNCHANGED rectangleVars
  /\ UNCHANGED jsonVars

(* `return new MyXSelector(...)`: r is what the constructor ctor did and c  *)
(* describes the call.  If the constructor threw, the call throws and no    *)
(* object is returned; otherwise the new object holds r.items.              *)
Return(c, ctor, r) ==
  /\ before' = heap
  /\ heap' = r.heap
  /\ IF r.err = NoError
     THEN /\ objs' = Append(objs, [items |-> r.items, ctor |-> ctor,
                                    built |-> r.heap[r.items]])
          /\ call' = [c EXCEPT !.result = Len(objs) + 1]
     ELSE /\ objs' = objs
          /\ call' = [c EXCEPT !.err = r.err]
  /\ UNCHANGED rectangleVars
  /\ UNCHANGED jsonVars

FragmentCall(op, this, value) ==
  [NoCall EXCEPT !.op = op, !.this = this, !.value = value]

(* ------------------------------ actions -------------------------------- *)

(* this.element(value), on the facade or on a selector. *)
element(this, value) ==
  /\ Len(objs) <= MaxSelectors
  /\ Return(FragmentCall("element", this, value), "MyElementSelector",
            MyElementSelector(heap, objs[this].items, value))

id(this, value) ==
  /\ Len(objs) <= MaxSelectors
  /\ Return(FragmentCall("id", this, value), "MyIdSelector",
            MyIdSelector(heap, objs[this].items, value))

class(this, value) ==
  /\ Len(objs) <= MaxSelectors
  /\ Return(FragmentCall("class", this, value), "MyClassSelector",
            MyClassSelector(heap, objs[this].items, value))

attr(this, value) ==
  /\ Len(objs) <= MaxSelectors
  /\ Return(FragmentCall("attr", this, value), "MyAttrSelector",
            MyAttrSelector(heap, objs[this].items, value))

pseudoClass(this, value) ==
  /\ Len(objs) <= MaxSelectors
  /\ Return(FragmentCall("pseudoClass", this, value), "MyPseudoClassSelector",
            MyPseudoClassSelector(heap, objs[this].items, value))

pseudoElement(this, value) ==
  /\ Len(objs) <= MaxSelectors
  /\ Return(FragmentCall("pseudoElement", this, value), "MyPseudoElementSelector",
            MyPseudoElementSelector(heap, objs[this].items, value))

(* cssSelectorBuilder.combine(selector1, combinator, selector2), both       *)
(* arguments selectors built before.                                        *)
combine(selector1, combinator, selector2) ==
  /\ Len(objs) <= MaxSelectors
  /\ Return([NoCall EXCEPT !.op = "combine", !.this = cssSelectorBuilder,
                            !.value = combinator, !.left = selector1,
                            !.right = selector2],
            "MyCombineSelector",
            MyCombineSelector(heap, objs[selector1].items, combinator,
                              objs[selector2].items))

(* selector.stringify(): reads the array, changes nothing. *)
Stringify(this) ==
  /\ before' = heap
  /\ call' = [NoCall EXCEPT !.op = "stringify", !.this = this,
                             !.text = stringify(ItemsOf(this))]
  /\ UNCHANGED <<heap, objs>>
  /\ UNCHANGED rectangleVars
  /\ UNCHANGED jsonVars

Next ==
  \/ \E this \in 1..Len(objs), value \in Values("element") : element(this, value)
  \/ \E this \in 1..Len(objs), value \in Values("id") : id(this, value)
  \/ \E this \in 1..Len(objs), value \in Values("class") : class(this, value)
  \/ \E this \in 1..Len(objs), value \in Values("attr") : attr(this, value)
  \/ \E this \in 1..Len(objs), value \in Values("pseudoClass") : pseudoClass(this, value)
  \/ \E this \in 1..Len(objs), value \in Values("pseudoElement") : pseudoElement(this, value)
  \/ \E selector1 \in Selectors, selector2 \in Selectors, combinator \in Combinators :
        combine(selector1, combinator, selector2)
  \/ \E this \in Selectors : Stringify(this)

Spec == Init /\ [][Next]_vars

(* ------------------------- reading a call ------------------------------ *)

(* The precedence table of the selector parts. *)
Rank ==
  [element |-> 0, id |-> 1, class |-> 2, attr |-> 3, pseudoClass |-> 4,
   pseudoElement |-> 5]

(* The most recent call was a fragment call made on a selector (not on the *)
(* facade).                                                                *)
FragmentCallOnSelector == call.op \in Types /\ call.this \in Selectors

(* The receiver's fragment sequence when the most recent call started. *)
Prev == before[objs[call.this].items]

Contains(arr, type) == \E i \in 1..Len(arr) : arr[i].type = type

(* An unbroken chain: no combine item in the sequence. *)
Unbroken(arr) == ~Contains(arr, "combine")

(* The fragment a call of kind op with text value adds. *)
Fragment(op, value) == [type |-> op, value |-> value, weight |-> Rank[op]]

Failed(message) == call.err = message /\ call.result = 0

(* The call returned a new selector whose sequence is arr. *)
Returned(arr) ==
  /\ call.err = NoError
  /\ call.result = Len(objs)
  /\ ItemsOf(call.result) = arr

(* ------------------------------- C1 ------------------------------------ *)

(* C1: a chain of two fragment calls from the facade, A then B: when       *)
(* rank(A) > rank(B) the B call fails with the ordering error; when        *)
(* rank(A) < rank(B) it succeeds and returns the sequence A, B.            *)
C1_OrderOfTwo ==
  (FragmentCallOnSelector /\ Len(Prev) = 1) =>
     /\ Rank[Prev[1].type] > Rank[call.op] => Failed(OrderMessage)
     /\ Rank[Prev[1].type] < Rank[call.op] =>
          Returned(<<Prev[1], Fragment(call.op, call.value)>>)

C1_Witness ==
  /\ FragmentCallOnSelector /\ Len(Prev) = 1
  /\ Rank[Prev[1].type] > Rank[call.op]
  /\ call.err = OrderMessage

(* ------------------------------- C2 ------------------------------------ *)

(* C2: in an unbroken chain, an element call on a sequence that holds an   *)
(* element, and a pseudoElement call on one that holds a pseudoElement,    *)
(* fails with the duplicate error, whatever lies in between.               *)
C2_DuplicateElement ==
  (/\ FragmentCallOnSelector
   /\ call.op \in {"element", "pseudoElement"}
   /\ Unbroken(Prev)
   /\ Contains(Prev, call.op)) => Failed(ElementsMessage)

(* An element call on a sequence whose element is not its last fragment. *)
C2_Witness ==
  /\ FragmentCallOnSelector /\ call.op = "element"
  /\ Unbroken(Prev) /\ Contains(Prev, "element")
  /\ Prev[Len(Prev)].type # "element"
  /\ call.err = ElementsMessage

(* ------------------------------- C3 ------------------------------------ *)

(* C3: a successful fragment call on a selector S returns a new selector   *)
(* holding S's sequence plus the new fragment and leaves S as it was: the  *)
(* same sequence and the same stringify text.                              *)
C3_ReceiverUnchanged ==
  (FragmentCallOnSelector /\ call.err = NoError) =>
     /\ Returned(Append(Prev, Fragment(call.op, call.value)))
     /\ ItemsOf(call.this) = Prev
     /\ stringify(ItemsOf(call.this)) = stringify(Prev)

(* ------------------------------- C4 ------------------------------------ *)

(* What the css text of one fragment starts and ends with, around its value. *)
Opening ==
  [element |-> "", id |-> "#", class |-> ".", attr |-> "[", pseudoClass |-> ":",
   pseudoElement |-> "::", combine |-> " "]

Closing ==
  [element |-> "", id |-> "", class |-> "", attr |-> "]", pseudoClass |-> "",
   pseudoElement |-> "", combine |-> " "]

Rendered(item) == Opening[item.type] \o item.value \o Closing[item.type]

(* Where the text of fragment i starts in the text of the whole sequence. *)
RECURSIVE Offset(_, _)
Offset(arr, i) == IF i = 1 THEN 1 ELSE Offset(arr, i - 1) + Len(Rendered(arr[i - 1]))

(* text is the fragments of arr rendered one after the other, nothing else. *)
IsConcatenation(text, arr) ==
  /\ Len(text) = Offset(arr, Len(arr) + 1) - 1
  /\ \A i \in 1..Len(arr) :
       SubSeq(text, Offset(arr, i), Offset(arr, i + 1) - 1) = Rendered(arr[i])

(* C4: stringify returns the fragments rendered by kind and concatenated   *)
(* in order with no separators; id main, class container, class editable   *)
(* gives '#main.container.editable', and a descendant combinator renders   *)
(* as three spaces.                                                        *)
C4_Stringify ==
  call.op = "stringify" =>
     /\ IsConcatenation(call.text, ItemsOf(call.this))
     /\ ItemsOf(call.this) = <<Fragment("id", "main"), Fragment("class", "container"),
                              Fragment("class", "editable")>>
          => call.text = "#main.container.editable"
     /\ ItemsOf(call.this) = <<Fragment("element", "div"), [type |-> "combine", value |-> " "],
                              Fragment("element", "div")>>
          => call.text = "div   div"

C4_Witness ==
  /\ call.op = "stringify"
  /\ Len(ItemsOf(call.this)) = 3
  /\ call.text = "#main.container.editable"

(* ------------------------------- C5 ------------------------------------ *)

(* The documented example, through the constructors: element div, id main  *)
(* on the left, element table, id data on the right, combined with '+'.    *)
ExampleLeft == MyIdSelector(MyElementSelector(<<>>, Undefined, "div").heap, 1, "main")
ExampleRight == MyIdSelector(MyElementSelector(ExampleLeft.heap, Undefined, "table").heap, 2, "data")
ExampleCombined == MyCombineSelector(ExampleRight.heap, 1, "+", 2)

(* C5: combine returns a new selector holding the left fragments, one      *)
(* combine item with the symbol, then the right fragments, in an array of  *)
(* its own, and leaves the sequences of left and right as they were.       *)
C5_Combine ==
  call.op = "combine" =>
     LET l == objs[call.left].items
         r == objs[call.right].items IN
     /\ Returned(before[l] \o <<[type |-> "combine", value |-> call.value]>> \o before[r])
     /\ \A o \in 1..(Len(objs) - 1) : objs[o].items # objs[call.result].items
     /\ heap[l] = before[l]
     /\ heap[r] = before[r]
     /\ stringify(ExampleCombined.heap[ExampleCombined.items]) = "div#main + table#data"

C5_Witness ==
  /\ call.op = "combine"
  /\ call.left # call.right
  /\ call.err = NoError
  /\ Len(ItemsOf(call.result)) >= 4

(* ------------------------------- C6 ------------------------------------ *)

(* The two sides of a combine, joined, would break the single-chain rules: *)
(* both hold an element, or the left ends above where the right starts.    *)
JoinBreaksChainRules ==
  LET l == before[objs[call.left].items]
      r == before[objs[call.right].items] IN
  \/ Contains(l, "element") /\ Contains(r, "element")
  \/ Contains(l, "pseudoElement") /\ Contains(r, "pseudoElement")
  \/ /\ l[Len(l)].type \in Types /\ r[1].type \in Types
     /\ Rank[l[Len(l)].type] > Rank[r[1].type]

(* C6: combine never fails: it throws neither error and returns a          *)
(* selector, also when the joined fragments break the single-chain rules.  *)
C6_CombineNeverFails ==
  call.op = "combine" => call.err = NoError /\ call.result = Len(objs)

C6_Witness ==
  /\ call.op = "combine"
  /\ JoinBreaksChainRules
  /\ call.err = NoError /\ call.result = Len(objs)

(* ------------------------------- C7 ------------------------------------ *)

(* C7: a fragment call that fails applies nothing: no object is returned   *)
(* and every array, the receiver's included, is what it was before the     *)
(* call, so every selector stringifies as before.                          *)
C7_FailureChangesNothing ==
  (call.op \in Types /\ call.err # NoError) =>
     /\ call.err \in {OrderMessage, ElementsMessage}
     /\ call.result = 0
     /\ heap = before
     /\ \A o \in Selectors : stringify(ItemsOf(o)) = stringify(before[objs[o].items])

C7_Witness ==
  /\ FragmentCallOnSelector
  /\ call.err = ElementsMessage
  /\ Len(objs) > 2
  /\ heap = before

(* ------------------------------- C8 ------------------------------------ *)

(* A call of kind call.op on an unbroken chain that already holds a        *)
(* fragment of that kind and ends no higher than the call's rank.          *)
RepeatsKindInOrder ==
  /\ FragmentCallOnSelector
  /\ Unbroken(Prev)
  /\ Contains(Prev, call.op)
  /\ Rank[Prev[Len(Prev)].type] <= Rank[call.op]

(* C8 as stated: a second id, class, attr or pseudoClass call that         *)
(* respects the order succeeds and returns one more fragment of that kind. *)
C8_SecondIdClassAttrPseudoClass ==
  (RepeatsKindInOrder /\ call.op \in {"id", "class", "attr", "pseudoClass"}) =>
     Returned(Append(Prev, Fragment(call.op, call.value)))

(* C8 as amended: a second class, attr or pseudoClass call that respects   *)
(* the order succeeds and returns one more fragment of that kind; element, *)
(* id and pseudoElement are limited to one per run, a second one failing   *)
(* with the duplicate error.                                               *)
C8_SecondClassAttrPseudoClass ==
  /\ (RepeatsKindInOrder /\ call.op \in {"class", "attr", "pseudoClass"}) =>
        Returned(Append(Prev, Fragment(call.op, call.value)))
  /\ (RepeatsKindInOrder /\ call.op \in {"element", "id", "pseudoElement"}) =>
        Failed(ElementsMessage)

C8_Witness ==
  /\ RepeatsKindInOrder
  /\ call.op = "class"
  /\ call.err = NoError
  /\ Len(ItemsOf(call.result)) = Len(Prev) + 1

(* ------------------------------- C9 ------------------------------------ *)

(* C9: in an unbroken chain a second id call fails at the call itself,     *)
(* with the same message a second element or pseudoElement gets, and       *)
(* returns no selector there is to stringify.                              *)
C9_SecondIdFails ==
  (/\ FragmentCallOnSelector
   /\ call.op = "id"
   /\ Unbroken(Prev)
   /\ Contains(Prev, "id")) =>
     /\ call.err = "Element, id and pseudo-element should not occur more then one time inside the selector"
     /\ call.err = MyElementSelector(<<<<Fragment("element", "div")>>>>, 1, "div").err
     /\ call.err = MyPseudoElementSelector(<<<<Fragment("pseudoElement", "before")>>>>, 1, "before").err
     /\ call.result = 0

C9_Witness ==
  /\ FragmentCallOnSelector /\ call.op = "id"
  /\ Unbroken(Prev) /\ Contains(Prev, "id")
  /\ call.err = ElementsMessage

(* ------------------------------- C10 ----------------------------------- *)

(* The most recent call was a fragment call made directly on a selector    *)
(* that combine returned.                                                  *)
FragmentCallOnCombined ==
  FragmentCallOnSelector /\ objs[call.this].ctor = "MyCombineSelector"

SameRun(arr, i, j) == \A k \in i..j : arr[k].type # "combine"

(* Within each run the ranks never decrease and element and pseudoElement  *)
(* occur at most once.                                                     *)
RunsWellFormed(arr) ==
  \A i \in 1..Len(arr) : \A j \in (i + 1)..Len(arr) :
     SameRun(arr, i, j) =>
        /\ Rank[arr[i].type] <= Rank[arr[j].type]
        /\ arr[i].type = arr[j].type => arr[i].type \notin {"element", "pseudoElement"}

(* C11: every selector built by successful fragment and combine calls has  *)
(* non-decreasing ranks within each run between combinators, and at most   *)
(* one element and one pseudoElement per run.                              *)
C11_RunsWellFormed == \A o \in Selectors : RunsWellFormed(ItemsOf(o))

(* A combined selector with two runs of two fragments, an element in each. *)
C11_Witness ==
  \E o \in Selectors :
     /\ Len(ItemsOf(o)) = 5
     /\ ItemsOf(o)[3].type = "combine"
     /\ ItemsOf(o)[1].type = "element" /\ ItemsOf(o)[4].type = "element"
     /\ Rank[ItemsOf(o)[2].type] > 0 /\ Rank[ItemsOf(o)[5].type] > 0

(* ------------------------------- C12 ----------------------------------- *)

(* C12: the facade never holds a fragment sequence, whatever was called;   *)
(* a fragment call made on the facade returns a selector with exactly one  *)
(* fragment, in an array no selector built before refers to, so chains     *)
(* started from the facade share nothing.                                  *)
C12_FacadeStateless ==
  /\ objs[cssSelectorBuilder].items = Undefined
  /\ (call.op \in Types /\ call.this = cssSelectorBuilder) =>
        /\ Returned(<<Fragment(call.op, call.value)>>)
        /\ objs[call.result].items = Len(heap)
        /\ Len(heap) = Len(before) + 1
        /\ \A o \in 1..(Len(objs) - 1) : objs[o].items # objs[call.result].items
        /\ \A r \in 1..Len(before) : heap[r] = before[r]

(* A call on the facade made after other chains, a combine and a failing   *)
(* call among them, were built.                                            *)
C12_Witness ==
  /\ call.op \in Types /\ call.this = cssSelectorBuilder
  /\ call.err = NoError
  /\ \E o \in Selectors : objs[o].ctor = "MyCombineSelector"
  /\ Len(ItemsOf(call.result)) = 1

(* ============================ Rectangle ================================ *)

(* Bound: widths and heights range over -MaxSide..MaxSide. *)
MaxSide == 2

Sides == (0 - MaxSide)..MaxSide

(* new Rectangle(width, height): the two fields, and the arrow function    *)
(* getArea, which closes over `this` and has the constructor's parameters  *)
(* in scope.                                                               *)
Rectangle(width, height) ==
  [width |-> width, height |-> height,
   scope |-> [width |-> width, height |-> height]]

(* Variant of getArea that multiplies the constructor's parameters. *)
getAreaOfParameters(this) == this.scope.width * this.scope.height

(* () => this.width * this.height, read from the instance when called. *)
getArea(this) == this.width * this.height

(* const r = new Rectangle(width, height) *)
NewRectangle(width, height) ==
  /\ rects' = <<Rectangle(width, height)>>
  /\ given' = [width |-> width, height |-> height]
  /\ rcall' = [NoRectangleCall EXCEPT !.op = "Rectangle"]
  /\ UNCHANGED selectorVars
  /\ UNCHANGED jsonVars

(* r.width = width: the field is a plain writable property. *)
SetWidth(width) ==
  /\ Len(rects) = 1
  /\ rects' = <<[rects[1] EXCEPT !.width = width]>>
  /\ given' = [given EXCEPT !.width = width]
  /\ rcall' = [NoRectangleCall EXCEPT !.op = "setWidth"]
  /\ UNCHANGED selectorVars
  /\ UNCHANGED jsonVars

(* r.height = height *)
SetHeight(height) ==
  /\ Len(rects) = 1
  /\ rects' = <<[rects[1] EXCEPT !.height = height]>>
  /\ given' = [given EXCEPT !.height = height]
  /\ rcall' = [NoRectangleCall EXCEPT !.op = "setHeight"]
  /\ UNCHANGED selectorVars
  /\ UNCHANGED jsonVars

(* r.getArea() *)
GetArea ==
  /\ Len(rects) = 1
  /\ rcall' = [NoRectangleCall EXCEPT !.op = "getArea", !.area = getArea(rects[1])]
  /\ UNCHANGED <<rects, given>>
  /\ UNCHANGED selectorVars
  /\ UNCHANGED jsonVars

RectangleNext ==
  \/ \E width \in Sides, height \in Sides : NewRectangle(width, height)
  \/ \E width \in Sides : SetWidth(width)
  \/ \E height \in Sides : SetHeight(height)
  \/ GetArea

SpecRectangle == Init /\ [][RectangleNext]_vars

(* ------------------------------- C13 ----------------------------------- *)

(* C13: the instance holds the width and height last given to it, and      *)
(* getArea returns their product as they are when it is called: w * h      *)
(* right after construction, the product of the new values after a field   *)
(* was assigned.                                                           *)
C13_AreaAtCallTime ==
  /\ Len(rects) = 1 =>
        rects[1].width = given.width /\ rects[1].height = given.height
  /\ rcall.op = "getArea" => rcall.area = given.width * given.height

(* getArea called after both fields were changed from what the constructor *)
(* got, with a product the constructor's arguments do not give.            *)
C13_Witness ==
  /\ rcall.op = "getArea"
  /\ given.width # rects[1].scope.width
  /\ given.height # rects[1].scope.height
  /\ rcall.area # rects[1].scope.width * rects[1].scope.height
  /\ rcall.area = 0 - 4

(* ========================= getJSON / fromJSON ========================== *)

(* Bound: the numbers held in fields range over -1..MaxNumber. *)
MaxNumber == 10

(* JavaScript values held in fields: numbers, strings, undefined (a        *)
(* parameter that was not passed) and functions (a method set by the       *)
(* constructor).                                                           *)
Number(n) == [t |-> "number", n |-> n, s |-> ""]
String(s) == [t |-> "string", n |-> 0, s |-> s]
UndefinedValue == [t |-> "undefined", n |-> 0, s |-> ""]
FunctionValue == [t |-> "function", n |-> 0, s |-> ""]

(* Inputs: the arguments a constructor is called with. *)
Arguments ==
  {Number(n) : n \in (0 - 1)..MaxNumber} \cup {String(""), String("red")}
     \cup {UndefinedValue}

(* The types instances are built of: the parameters the constructor        *)
(* assigns to fields of the same name, in order, and the methods it sets   *)
(* after them.  Circle is the type of the documented example, Rectangle    *)
(* the constructor of this file.                                           *)
Constructors ==
  [Circle |-> [params |-> <<"radius">>, methods |-> <<>>],
   Rectangle |-> [params |-> <<"width", "height">>, methods |-> <<"getArea">>]]

(* new T(...args): the own properties of the instance, in the order the    *)
(* constructor creates them, each a pair <<name, value>>.  A parameter     *)
(* without an argument is undefined; arguments beyond the parameters are   *)
(* ignored.                                                                *)
New(T, args) ==
  LET c == Constructors[T] IN
  [type |-> T,
   props |-> [i \in 1..Len(c.params) |->
                <<c.params[i], IF i <= Len(args) THEN args[i] ELSE UndefinedValue>>]
             \o [i \in 1..Len(c.methods) |-> <<c.methods[i], FunctionValue>>]]

Quote == "\""

(* JSON.stringify of one value. *)
stringifyValue(v) ==
  IF v.t = "number" THEN ToString(v.n) ELSE Quote \o v.s \o Quote

(* JSON.stringify leaves out the properties holding undefined or a function. *)
Serializable(prop) == prop[2].t \notin {"undefined", "function"}

RECURSIVE stringifyMembers(_, _)
stringifyMembers(props, i) ==
  IF i > Len(props) THEN ""
  ELSE (IF i > 1 THEN "," ELSE "")
         \o Quote \o props[i][1] \o Quote \o ":" \o stringifyValue(props[i][2])
         \o stringifyMembers(props, i + 1)

(* JSON.stringify(obj) of an object with own properties props. *)
JSONstringify(props) ==
  "{" \o stringifyMembers(SelectSeq(props, Serializable), 1) \o "}"

(* getJSON(obj) *)
getJSON(obj) == JSONstringify(obj.props)

(* JSON.parse: the text is read character by character. *)
Char(text, i) == SubSeq(text, i, i)

DigitValue(c) == CHOOSE d \in 0..9 : Char("0123456789", d + 1) = c

IsDigit(c) == \E d \in 0..9 : Char("0123456789", d + 1) = c

RECURSIVE parseDigits(_, _, _)
parseDigits(text, i, acc) ==
  IF i <= Len(text) /\ IsDigit(Char(text, i))
  THEN parseDigits(text, i + 1, acc * 10 + DigitValue(Char(text, i)))
  ELSE [n |-> acc, next |-> i]

parseNumber(text, i) ==
  IF Char(text, i) = "-"
  THEN LET d == parseDigits(text, i + 1, 0) IN [value |-> Number(0 - d.n), next |-> d.next]
  ELSE LET d == parseDigits(text, i, 0) IN [value |-> Number(d.n), next |-> d.next]

(* The position of the quote that closes the string opened before i. *)
RECURSIVE closingQuote(_, _)
closingQuote(text, i) == IF Char(text, i) = Quote THEN i ELSE closingQuote(text, i + 1)

parseString(text, i) ==
  LET j == closingQuote(text, i + 1) IN
  [value |-> String(SubSeq(text, i + 1, j - 1)), next |-> j + 1]

parseValue(text, i) ==
  IF Char(text, i) = Quote THEN parseString(text, i) ELSE parseNumber(text, i)

(* The members from position i on, added to acc in the order of the text. *)
RECURSIVE parseMembers(_, _, _)
parseMembers(text, i, acc) ==
  LET key == parseString(text, i) IN
  LET val == parseValue(text, key.next + 1) IN
  LET props == Append(acc, <<key.value.s, val.value>>) IN
  IF Char(text, val.next) = "," THEN parseMembers(text, val.next + 1, props) ELSE props

(* JSON.parse(json) of the text of an object: its properties in text order. *)
JSONparse(json) == IF json = "{}" THEN <<>> ELSE parseMembers(json, 2, <<>>)

(* Object.values(obj): the values in property order. *)
ObjectValues(props) == [i \in 1..Len(props) |-> props[i][2]]

(* Variant of fromJSON that gives each parameter the value stored under    *)
(* its name.                                                               *)
fromJSONByName(proto, json) ==
  LET parsed == JSONparse(json) IN
  LET params == Constructors[proto].params IN
  New(proto, [i \in 1..Len(params) |->
                IF \E k \in 1..Len(parsed) : parsed[k][1] = params[i]
                THEN parsed[CHOOSE k \in 1..Len(parsed) : parsed[k][1] = params[i]][2]
                ELSE UndefinedValue])

(* fromJSON(proto, json): new proto.constructor(...Object.values(JSON.parse(json))); *)
(* proto names the type whose prototype is passed.                         *)
fromJSON(proto, json) == New(proto, ObjectValues(JSONparse(json)))

(* const x = new T(...args) *)
NewInstance(T, args) ==
  /\ jx' = <<New(T, args)>>
  /\ jtext' = <<>>
  /\ jy' = <<>>
  /\ UNCHANGED <<selectorVars, rectangleVars>>

(* const text = getJSON(x) *)
GetJSON ==
  /\ Len(jx) = 1
  /\ jtext' = <<getJSON(jx[1])>>
  /\ jy' = <<>>
  /\ UNCHANGED <<jx, selectorVars, rectangleVars>>

(* const y = fromJSON(T.prototype, text) *)
FromJSON(proto) ==
  /\ Len(jtext) = 1
  /\ jy' = <<fromJSON(proto, jtext[1])>>
  /\ UNCHANGED <<jx, jtext, selectorVars, rectangleVars>>

JSONNext ==
  \/ \E a \in Arguments : NewInstance("Circle", <<a>>)
  \/ \E a \in Arguments, b \in Arguments : NewInstance("Rectangle", <<a, b>>)
  \/ GetJSON
  \/ \E proto \in DOMAIN Constructors : FromJSON(proto)

SpecJSON == Init /\ [][JSONNext]_vars

(* ------------------------------- C14 ----------------------------------- *)

(* y = fromJSON(T.prototype, getJSON(x)) was built, T the type of x. *)
RoundTripDone == Len(jy) = 1 /\ jy[1].type = jx[1].type

(* The values of x that its text carries, in encoding order. *)
Encoded == ObjectValues(SelectSeq(jx[1].props, LAMBDA p : p[2].t \in {"number", "string"}))

CallBelowLast ==
  /\ FragmentCallOnSelector
  /\ Unbroken(Prev)
  /\ Rank[call.op] < Rank[Prev[Len(Prev)].type]

(* C15 as stated: every such call fails with the ordering error, also when *)
(* it repeats a kind already in the chain.                                 *)
C15_BelowLastFailsWithOrder == CallBelowLast => Failed(OrderMessage)

(* C15 as amended: every such call fails; with the duplicate error when    *)
(* it is an element or id call and the chain already holds a fragment of   *)
(* that kind (that check runs first), with the ordering error otherwise.   *)
C15_BelowLastFails ==
  CallBelowLast =>
     IF call.op \in {"element", "id"} /\ Contains(Prev, call.op)
     THEN Failed(ElementsMessage)
     ELSE Failed(OrderMessage)

(* A class call, after a class and an attr, rejected for its order. *)
C15_Witness ==
  /\ CallBelowLast
  /\ Len(Prev) >= 2
  /\ call.op = "class" /\ Contains(Prev, "class")
  /\ call.err = OrderMessage

(* ------------------------------- C16 ----------------------------------- *)

(* The constructor behind the fragment method op. *)
Construct(op, h, prev, val) ==
  CASE op = "element" -> MyElementSelector(h, prev, val)
    [] op = "id" -> MyIdSelector(h, prev, val)
    [] op = "class" -> MyClassSelector(h, prev, val)
    [] op = "attr" -> MyAttrSelector(h, prev, val)
    [] op = "pseudoClass" -> MyPseudoClassSelector(h, prev, val)
    [] op = "pseudoElement" -> MyPseudoElementSelector(h, prev, val)

(* What the most recent call does on a selector holding just the fragments *)
(* the receiver was built with, untouched by any other chain.              *)
OnOwnFragments == Construct(call.op, <<objs[call.this].built>>, 1, call.value)

(* C16: a fragment call on a selector S succeeds or fails as the calls     *)
(* that built S decide, and its result stringifies to S's own fragments    *)
(* plus the new one, whatever was called before on other chains that       *)
(* extend S.                                                               *)
C16_BranchesIndependent ==
  FragmentCallOnSelector =>
     /\ call.err = OnOwnFragments.err
     /\ call.err = NoError =>
          stringify(ItemsOf(call.result))
             = stringify(Append(objs[call.this].built, Fragment(call.op, call.value)))

(* ------------------------------- C17 ----------------------------------- *)

(* combine(combine(a, c1, b), c2, c) and combine(a, c1, combine(b, c2, c)) *)
(* for arrays a, b, c of the heap h: what each nesting returns.            *)
LeftNested(h, a, c1, b, c2, c) ==
  LET inner == MyCombineSelector(h, a, c1, b) IN
  MyCombineSelector(inner.heap, inner.items, c2, c)

RightNested(h, a, c1, b, c2, c) ==
  LET inner == MyCombineSelector(h, b, c2, c) IN
  MyCombineSelector(inner.heap, a, c1, inner.items)

(* C17: once combine(a, c1, b) was made, nesting it with any selector c    *)
(* and any combinator c2, on its right or on its left, succeeds and gives  *)
(* the same fragment sequence and the same stringify text as the other     *)
(* nesting of the same three selectors.                                    *)
C17_CombineAssociative ==
  call.op = "combine" =>
     \A c \in Selectors, c2 \in Combinators :
        LET a == objs[call.left].items
            b == objs[call.right].items
            ab == objs[call.result].items
            x == objs[c].items
            l == MyCombineSelector(heap, ab, c2, x)
            r == RightNested(heap, a, call.value, b, c2, x)
            l2 == LeftNested(heap, x, c2, a, call.value, b)
            r2 == MyCombineSelector(heap, x, c2, ab) IN
        /\ l.err = NoError /\ r.err = NoError /\ l2.err = NoError /\ r2.err = NoError
        /\ l.heap[l.items] = r.heap[r.items]
        /\ l2.heap[l2.items] = r2.heap[r2.items]
        /\ stringify(l.heap[l.items]) = stringify(r.heap[r.items])
        /\ stringify(l2.heap[l2.items]) = stringify(r2.heap[r2.items])

(* A nested combine was made: the left argument is itself a combined       *)
(* selector a c1 b, and the result is what combining a with b c2 c gives.  *)
C17_Witness ==
  /\ call.op = "combine"
  /\ call.err = NoError
  /\ objs[call.left].ctor = "MyCombineSelector"
  /\ Len(ItemsOf(call.result)) >= 5
  /\ \E a \in Selectors, b \in Selectors, c1 \in Combinators :
        /\ before[objs[call.left].items]
              = before[objs[a].items] \o <<[type |-> "combine", value |-> c1]>>
                   \o before[objs[b].items]
        /\ ItemsOf(call.result)
              = LET r == RightNested(before, objs[a].items, c1, objs[b].items,
                                     call.value, objs[call.right].items)
                IN r.heap[r.items]

(* ------------------------------- C18 ----------------------------------- *)

(* The selectors combine returned. *)
Combined == {o \in Selectors : objs[o].ctor = "MyCombineSelector"}

(* C18: a selector returned by combine holds an array of its own, which no *)
(* selector built before it (its left and right arguments among them)      *)
(* refers to; a fragment call on a selector that does not share that array *)
(* (the arguments, and what is derived from them) leaves the combined      *)
(* sequence and its text as they were, and a fragment call on the combined *)
(* selector leaves every other array, those of the arguments included, as  *)
(* it was.                                                                 *)
C18_CombinedHoldsOwnArray ==
  \A o \in Combined :
     LET own == objs[o].items IN
     /\ \A earlier \in 1..(o - 1) : objs[earlier].items # own
     /\ (FragmentCallOnSelector /\ own <= Len(before) /\ objs[call.this].items # own) =>
           /\ heap[own] = before[own]
           /\ stringify(heap[own]) = stringify(before[own])
     /\ (FragmentCallOnSelector /\ objs[call.this].items = own) =>
           \A r \in 1..Len(before) : r # own => heap[r] = before[r]

(* A successful fragment call on a selector built before a combined one:   *)
(* the receiver's array grew, the combined sequence did not.               *)
C18_Witness ==
  \E o \in Combined :
     /\ FragmentCallOnSelector
     /\ call.this < o
     /\ call.err = NoError
     /\ Len(ItemsOf(call.this)) = Len(Prev) + 1
     /\ ItemsOf(o) = before[objs[o].items]
     /\ SubSeq(ItemsOf(o), 1, Len(Prev)) = Prev

====
